---- MODULE Spec2Model ----
(***************************************************************************)
(* Model of universal-orm: the connection facade (UniversalORM), the       *)
(* adapter registry (DatabaseFactory), the config validator, the adapters' *)
(* transaction() handlers, their predicate and update compilers, the       *)
(* MongoAdapter and RedisAdapter operations over a store, the batch loops  *)
(* of DynamoDBAdapter and the initialize() / close() lifecycle.            *)
(***************************************************************************)
EXTENDS Integers, Sequences, FiniteSets, TLC

VARIABLES
    adapters,       \* DatabaseFactory.adapters: lower-cased type name -> constructor
    connections,    \* UniversalORM.connections: connection key -> instance id
    instances,      \* every adapter object constructed so far, indexed by identity
    result,         \* outcome of the last connect() call
    closePc,        \* position of the running closeAll(): "idle" or "awaiting"
    pending,        \* close() promises the running closeAll() awaits, unsettled
    orphan,         \* close() promises still unsettled after their closeAll() settled
    closeFailures,  \* instances whose close() of the latest closeAll() rejected
    closeAllResult, \* how the latest closeAll() settled
    probe,          \* one remembered successful connect() since the last closeAll()
    txKind,         \* the adapter class whose transaction() is running
    txPc,           \* position of the running transaction()
    held,           \* the session / pooled client transaction() acquired is not yet released
    acquired,       \* transaction() acquired a session / pooled client in this run
    commits,        \* commit attempts of this run
    rollbacks,      \* rollback attempts of this run
    rollbackFailed, \* the rollback attempt of this run rejected
    cbOutcome,      \* how the callback ended: "none", "returned", "threw"
    txError,        \* the error caught by the catch block, "none" if none
    txWrites,       \* writes of the callback held in the open transaction
    visible,        \* writes of the callback that reads outside the transaction observe
    txResult,       \* how transaction() settled
    compileIn,      \* the predicate, update or time range handed to a compiler
    compileOut,     \* the compiler that ran and what it returned or threw
    collection,     \* the records of the collection behind the model "User"
    crud,           \* the last operation on the collection and what it settled with
    redisData,      \* the Redis server: key -> the text set, when it expires
    now,            \* the clock of the Redis server
    redisOut,       \* the last RedisAdapter operation and what it returned
    batch,          \* the running batchWrite() / batchGet() of a DynamoDBAdapter
    natives,        \* the native connections, clients and pools one adapter opened
    life            \* that adapter: its class, the native it holds, its last call

facadeVars == <<adapters, connections, instances, result, closePc, pending,
                orphan, closeFailures, closeAllResult>>
txVars == <<txKind, txPc, held, acquired, commits, rollbacks, rollbackFailed,
            cbOutcome, txError, txWrites, visible, txResult>>
compilerVars == <<compileIn, compileOut>>
storeVars == <<collection, crud>>
redisVars == <<redisData, now, redisOut>>
lifeVars == <<natives, life>>
adapterVars == <<storeVars, redisVars, batch, lifeVars>>
vars == <<adapters, connections, instances, result, closePc, pending,
          orphan, closeFailures, closeAllResult, probe,
          txKind, txPc, held, acquired, commits, rollbacks, rollbackFailed,
          cbOutcome, txError, txWrites, visible, txResult,
          compileIn, compileOut,
          collection, crud,
          redisData, now, redisOut, batch, natives, life>>

----------------------------------------------------------------------------
(* Bounds and input sets *)

MaxInstances == 2
MaxWrites == 2

Undef == "undefined"
NoError == "ok"

Cfg(host, port, database, uri, user, password) ==
    [host |-> host, port |-> port, database |-> database,
     uri |-> uri, user |-> user, password |-> password]

Configs ==
    { Cfg("h1", "5432", "d1", Undef, "u", "p"),
      Cfg("h2", "5432", "d1", Undef, "u", "p"),
      Cfg("h1", Undef, "d1", Undef, "u", Undef),
      Cfg(Undef, Undef, "d1", "u1", Undef, Undef) }

TypeNames == {"postgres", "mongodb", "sqlite"}

\* no connect() call is remembered
NoProbe == [type |-> "", config |-> Cfg(Undef, Undef, Undef, Undef, Undef, Undef),
            ret |-> 0, calls |-> 0, again |-> 0, constructions |-> 0]

----------------------------------------------------------------------------
(* Pure helpers *)

\* JavaScript truthiness of a config value: undefined and "" are falsy
Truthy(v) == v \notin {Undef, ""}

\* config[field], undefined for an absent property
Get(config, field) == IF field \in DOMAIN config THEN config[field] ELSE Undef

\* String.prototype.toLowerCase on the type names in use
toLowerCase(type) ==
    CASE type = "Postgres" -> "postgres"
      [] type = "POSTGRES" -> "postgres"
      [] type = "MongoDB"  -> "mongodb"
      [] type = "Redis"    -> "redis"
      [] type = "Custom"   -> "custom"
      [] OTHER             -> type

requiredFields(t) ==
    CASE t = "postgres"      -> <<"host", "port", "database", "user", "password">>
      [] t = "mongodb"       -> <<"uri", "database">>
      [] t = "redis"         -> <<"host", "port">>
      [] t = "cassandra"     -> <<"contactPoints", "localDataCenter", "keyspace">>
      [] t = "dynamodb"      -> <<"region">>
      [] t = "elasticsearch" -> <<"node">>
      [] t = "neo4j"         -> <<"uri", "user", "password">>
      [] t = "influxdb"      -> <<"url", "token", "org", "bucket">>
      [] t = "arango"        -> <<"url", "database", "username", "password">>
      [] t = "orientdb"      -> <<"host", "port", "username", "password", "database">>
      [] t = "timescale"     -> <<"host", "port", "database", "user", "password">>
      [] t = "cockroachdb"   -> <<"host", "port", "database", "user", "password">>
      [] OTHER               -> <<>>

\* The properties a plain object literal inherits from Object.prototype under
\* a name that a lower-cased string can equal, among the names in use
ObjectPrototype == [k \in {"constructor"} |-> "Object"]

\* obj[k] on a plain object: the own property, else the inherited one, else undefined
Lookup(obj, k) ==
    IF k \in DOMAIN obj THEN obj[k]
    ELSE IF k \in DOMAIN ObjectPrototype THEN ObjectPrototype[k]
    ELSE Undef

\* a validator that accepts every config
validateNothing(type, config) == NoError

\* ConfigValidator.validate: the message of the error it throws, or NoError
validate(type, config) ==
    IF type = "" THEN "Database type must be a non-empty string"
    ELSE IF toLowerCase(type) \in DOMAIN ObjectPrototype
    THEN "fields is not iterable"
    ELSE LET fields == requiredFields(toLowerCase(type))
             missing == SelectSeq(fields, LAMBDA f : ~Truthy(Get(config, f)))
         IN IF missing # <<>>
            THEN "Missing required field: " \o Head(missing)
            ELSE NoError

\* `${type}-${config.database || config.uri || config.host}`
connectionKey(type, config) ==
    type \o "-" \o
      (IF Truthy(config.database) THEN config.database
       ELSE IF Truthy(config.uri) THEN config.uri
       ELSE config.host)

\* a lookup that never finds the key
cacheNeverHas(key) == FALSE

\* this.connections.has(connectionKey)
cacheHas(key) == key \in DOMAIN connections

\* Map.prototype.set
MapSet(m, k, v) == [x \in DOMAIN m \cup {k} |-> IF x = k THEN v ELSE m[x]]

\* The initial registry of DatabaseFactory
BuiltinAdapters ==
    [t \in {"arango", "cassandra", "cockroachdb", "dynamodb", "elasticsearch",
            "influxdb", "mongodb", "neo4j", "orientdb", "postgres", "redis",
            "timescale"} |->
       CASE t = "arango"        -> "ArangoAdapter"
         [] t = "cassandra"     -> "CassandraAdapter"
         [] t = "cockroachdb"   -> "CockroachDBAdapter"
         [] t = "dynamodb"      -> "DynamoDBAdapter"
         [] t = "elasticsearch" -> "ElasticsearchAdapter"
         [] t = "influxdb"      -> "InfluxDBAdapter"
         [] t = "mongodb"       -> "MongoAdapter"
         [] t = "neo4j"         -> "Neo4jAdapter"
         [] t = "orientdb"      -> "OrientDBAdapter"
         [] t = "postgres"      -> "PostgresAdapter"
         [] t = "redis"         -> "RedisAdapter"
         [] t = "timescale"     -> "TimescaleAdapter"]

\* a constructor that connects to the store
NewAdapterInitialized(ctor, type, config) ==
    [ctor |-> ctor, type |-> type, config |-> config,
     state |-> "ready"]

\* new AdapterClass(config): the constructor stores the config and opens nothing
NewAdapter(ctor, type, config) ==
    [ctor |-> ctor, type |-> type, config |-> config,
     state |-> "created"]

\* DatabaseFactory.createDatabase: the adapter it returns, or the error it throws
createDatabase(type, config) ==
    LET AdapterClass == Lookup(adapters, toLowerCase(type))
    IN IF ~Truthy(AdapterClass)
       THEN [error |-> "Unsupported database type: " \o type]
       ELSE [error |-> NoError,
             adapter |-> NewAdapter(AdapterClass, type, config)]

\* DatabaseFactory.getSupportedDatabases: Object.keys lists the own properties
getSupportedDatabases == DOMAIN adapters

\* DatabaseFactory.isSupported: the `in` operator also finds inherited properties
isSupported(type) ==
    toLowerCase(type) \in DOMAIN adapters \cup DOMAIN ObjectPrototype

Ids == 1..Len(instances)
Cached == {connections[k] : k \in DOMAIN connections}
EmptyMap == [k \in {} |-> 0]

----------------------------------------------------------------------------
(* UniversalORM.connect *)

connectFail(msg) ==
    /\ result' = [op |-> "connect", ret |-> 0, constructed |-> FALSE,
                  error |-> "Connection failed: " \o msg]
    /\ UNCHANGED <<adapters, connections, instances>>

connect(type, config) ==
    /\ LET verr == validate(type, config)
           key  == connectionKey(type, config)
           made == createDatabase(type, config)
       IN IF verr # NoError THEN connectFail(verr)
          ELSE IF cacheHas(key)
          THEN /\ result' = [op |-> "connect", ret |-> connections[key],
                             constructed |-> FALSE, error |-> NoError]
               /\ UNCHANGED <<adapters, connections, instances>>
          ELSE IF made.error # NoError THEN connectFail(made.error)
          ELSE /\ Len(instances) < MaxInstances
               /\ instances' = Append(instances, made.adapter)
               /\ connections' = MapSet(connections, key, Len(instances) + 1)
               /\ result' = [op |-> "connect", ret |-> Len(instances) + 1,
                             constructed |-> TRUE, error |-> NoError]
               /\ UNCHANGED adapters
    /\ UNCHANGED <<closePc, pending, orphan, closeFailures, closeAllResult>>

----------------------------------------------------------------------------
(* DatabaseFactory.addAdapter and removeAdapter *)

\* the values a caller passes as AdapterClass: a class and a non-function
Constructors == {"CustomAdapter"}
AdapterArgs == Constructors \cup {"notAFunction"}

registryResult(op, error) ==
    result' = [op |-> op, ret |-> 0, constructed |-> FALSE, error |-> error]

\* a registration that stores the type name as it was given
addAdapterAsGiven(type, AdapterClass) ==
    /\ adapters' = MapSet(adapters, type, AdapterClass)
    /\ registryResult("addAdapter", NoError)
    /\ UNCHANGED <<connections, instances, closePc, pending, orphan,
                   closeFailures, closeAllResult>>

\* a registration that keeps the constructor a name already has
addAdapterKeepsFirst(type, AdapterClass) ==
    /\ adapters' = IF toLowerCase(type) \in DOMAIN adapters THEN adapters
                   ELSE MapSet(adapters, toLowerCase(type), AdapterClass)
    /\ registryResult("addAdapter", NoError)
    /\ UNCHANGED <<connections, instances, closePc, pending, orphan,
                   closeFailures, closeAllResult>>

addAdapter(type, AdapterClass) ==
    /\ IF type = ""
       THEN /\ registryResult("addAdapter", "Database type must be a non-empty string")
            /\ UNCHANGED adapters
       ELSE IF AdapterClass \notin Constructors
       THEN /\ registryResult("addAdapter", "Adapter must be a class")
            /\ UNCHANGED adapters
       ELSE /\ adapters' = MapSet(adapters, toLowerCase(type), AdapterClass)
            /\ registryResult("addAdapter", NoError)
    /\ UNCHANGED <<connections, instances, closePc, pending, orphan,
                   closeFailures, closeAllResult>>

\* delete this.adapters[type.toLowerCase()]: deleting an absent property is a no-op
removeAdapter(type) ==
    /\ adapters' = [k \in DOMAIN adapters \ {toLowerCase(type)} |-> adapters[k]]
    /\ registryResult("removeAdapter", NoError)
    /\ UNCHANGED <<connections, instances, closePc, pending, orphan,
                   closeFailures, closeAllResult>>

----------------------------------------------------------------------------
(* The caller's initialize() on an adapter handle it holds *)

initialize(i, ok) ==
    /\ i \in Ids
    /\ instances' = IF ok THEN [instances EXCEPT ![i].state = "ready"]
                    ELSE instances
    /\ UNCHANGED <<adapters, connections, result, closePc, pending, orphan,
                   closeFailures, closeAllResult>>

----------------------------------------------------------------------------
(* UniversalORM.closeAll *)

\* the synchronous part: close() is called on every cached instance, then
\* the function suspends on Promise.all
closeAll ==
    /\ closePc = "idle"
    /\ orphan = {}
    /\ pending' = Cached
    /\ closeFailures' = {}
    /\ closeAllResult' = [status |-> "running", errors |-> {}]
    /\ closePc' = "awaiting"
    /\ UNCHANGED <<adapters, connections, instances, result, orphan>>

\* one awaited close() fulfils; when it was the last one Promise.all fulfils
\* and closeAll resumes: this.connections.clear()
closeFulfilled(i) ==
    /\ closePc = "awaiting"
    /\ i \in pending
    /\ instances' = [instances EXCEPT ![i].state = "closed"]
    /\ pending' = pending \ {i}
    /\ IF pending = {i}
       THEN /\ connections' = EmptyMap
            /\ closePc' = "idle"
            /\ closeAllResult' = [status |-> "resolved", errors |-> {}]
       ELSE UNCHANGED <<connections, closePc, closeAllResult>>
    /\ UNCHANGED <<adapters, result, orphan, closeFailures>>

\* Promise.all over no promises fulfils at once
closeAllEmpty ==
    /\ closePc = "awaiting"
    /\ pending = {}
    /\ connections' = EmptyMap
    /\ closePc' = "idle"
    /\ closeAllResult' = [status |-> "resolved", errors |-> {}]
    /\ UNCHANGED <<adapters, instances, result, pending, orphan, closeFailures>>

\* one awaited close() rejects: Promise.all rejects with that reason at once,
\* closeAll rethrows it and never reaches this.connections.clear()
closeRejected(i) ==
    /\ closePc = "awaiting"
    /\ i \in pending
    /\ closeFailures' = closeFailures \cup {i}
    /\ orphan' = pending \ {i}
    /\ pending' = {}
    /\ closePc' = "idle"
    /\ closeAllResult' = [status |-> "rejected", errors |-> {i}]
    /\ UNCHANGED <<adapters, connections, instances, result>>

\* a close() nobody awaits any more settles
orphanSettled(i, ok) ==
    /\ i \in orphan
    /\ orphan' = orphan \ {i}
    /\ instances' = IF ok THEN [instances EXCEPT ![i].state = "closed"]
                    ELSE instances
    /\ closeFailures' = IF ok THEN closeFailures ELSE closeFailures \cup {i}
    /\ UNCHANGED <<adapters, connections, result, closePc, pending, closeAllResult>>

----------------------------------------------------------------------------
(* transaction(callback) of the adapters *)

TxKinds == {"MongoAdapter.ts", "MongoAdapter.js", "CockroachDBAdapter",
            "OrientDBAdapter", "RedisAdapter"}

\* startSession() / pool.connect(): the adapters that acquire a session or a
\* pooled client for the transaction
Acquires(kind) == kind \in {"MongoAdapter.ts", "MongoAdapter.js", "CockroachDBAdapter"}

\* the statement that opens the transaction stands inside the try block
BeginInTry(kind) == kind \in {"MongoAdapter.ts", "MongoAdapter.js", "CockroachDBAdapter"}

\* the callback is called with the transaction-bound handle as its argument
PassesHandle(kind) == kind # "MongoAdapter.ts"

\* the catch block attempts a rollback before it throws
RollsBack(kind) == kind # "RedisAdapter"

\* the value transaction() returns after a successful commit
ReturnValue(kind) == IF kind = "RedisAdapter" THEN "execResult" ELSE "callbackResult"

\* an error thrown by transaction(): wrapped says whether it is the adapter's
\* DatabaseError, mentions names the failures its message carries
Wrapped(cause) == [wrapped |-> TRUE, mentions |-> {cause}]
Raw(cause) == [wrapped |-> FALSE, mentions |-> {cause}]

\* the guard of the call on an adapter that was never initialized
NotInitializedError(kind) ==
    IF kind = "MongoAdapter.ts" THEN Wrapped("notInitialized") ELSE Raw("notInitialized")

\* a release placed at the end of the try block instead of in finally
ReleaseOnReturn(kind, status) == Acquires(kind) /\ status = "returned"

\* the finally block: session.endSession() / client.release()
ReleaseOnExit(kind, status) == Acquires(kind)

\* transaction() settles with outcome; the finally block runs first
TxSettle(outcome) ==
    /\ txPc' = "done"
    /\ txResult' = outcome
    /\ held' = IF ReleaseOnExit(txKind, outcome.status) THEN FALSE ELSE held

TxReturned(value) == [status |-> "returned", value |-> value, error |-> Raw("none")]
TxThrew(error) == [status |-> "threw", value |-> "none", error |-> error]

\* a call of transaction(callback) on an adapter of the given class
TxStart(kind, initialized) ==
    /\ UNCHANGED <<facadeVars, probe, compilerVars, adapterVars>>
    /\ txPc \in {"idle", "done"}
    /\ txKind' = kind
    /\ acquired' = FALSE
    /\ held' = FALSE
    /\ commits' = 0
    /\ rollbacks' = 0
    /\ rollbackFailed' = FALSE
    /\ cbOutcome' = "none"
    /\ txError' = "none"
    /\ txWrites' = {}
    /\ visible' = {}
    /\ IF initialized
       THEN /\ txPc' = "acquire"
            /\ txResult' = [status |-> "running", value |-> "none", error |-> Raw("none")]
       ELSE /\ txPc' = "done"
            /\ txResult' = TxThrew(NotInitializedError(kind))

\* await startSession() / pool.connect() / db.begin() / client.multi(),
\* all before the try block
TxAcquire(ok) ==
    /\ UNCHANGED <<facadeVars, probe, compilerVars, adapterVars>>
    /\ txPc = "acquire"
    /\ IF txKind = "RedisAdapter"
       THEN /\ ok
            /\ txPc' = "callback"
            /\ UNCHANGED <<held, acquired, txResult>>
       ELSE IF ~ok
       THEN /\ TxSettle(TxThrew(Raw("acquire")))
            /\ UNCHANGED acquired
       ELSE /\ acquired' = Acquires(txKind)
            /\ held' = Acquires(txKind)
            /\ txPc' = IF BeginInTry(txKind) THEN "begin" ELSE "callback"
            /\ UNCHANGED txResult
    /\ UNCHANGED <<txKind, commits, rollbacks, rollbackFailed, cbOutcome,
                   txError, txWrites, visible>>

\* session.startTransaction() / await client.query('BEGIN')
TxBegin(ok) ==
    /\ UNCHANGED <<facadeVars, probe, compilerVars, adapterVars>>
    /\ txPc = "begin"
    /\ txPc' = IF ok THEN "callback" ELSE "rollback"
    /\ txError' = IF ok THEN txError ELSE "begin"
    /\ UNCHANGED <<txKind, held, acquired, commits, rollbacks, rollbackFailed,
                   cbOutcome, txWrites, visible, txResult>>

\* the callback writes: through the handle it was given, or, when it was given
\* none, through the adapter, whose operations are not part of the transaction
TxWrite ==
    /\ UNCHANGED <<facadeVars, probe, compilerVars, adapterVars>>
    /\ txPc = "callback"
    /\ Cardinality(txWrites \cup visible) < MaxWrites
    /\ LET w == Cardinality(txWrites \cup visible) + 1
       IN IF PassesHandle(txKind)
          THEN txWrites' = txWrites \cup {w} /\ UNCHANGED visible
          ELSE visible' = visible \cup {w} /\ UNCHANGED txWrites
    /\ UNCHANGED <<txKind, txPc, held, acquired, commits, rollbacks,
                   rollbackFailed, cbOutcome, txError, txResult>>

\* the callback returns normally
TxCallbackReturn ==
    /\ UNCHANGED <<facadeVars, probe, compilerVars, adapterVars>>
    /\ txPc = "callback"
    /\ cbOutcome' = "returned"
    /\ txPc' = "commit"
    /\ UNCHANGED <<txKind, held, acquired, commits, rollbacks, rollbackFailed,
                   txError, txWrites, visible, txResult>>

\* the callback throws: control enters the catch block
TxCallbackThrow ==
    /\ UNCHANGED <<facadeVars, probe, compilerVars, adapterVars>>
    /\ txPc = "callback"
    /\ cbOutcome' = "threw"
    /\ txError' = "callback"
    /\ IF RollsBack(txKind)
       THEN txPc' = "rollback" /\ UNCHANGED <<txResult, held>>
       ELSE TxSettle(TxThrew(Wrapped("callback")))
    /\ UNCHANGED <<txKind, acquired, commits, rollbacks, rollbackFailed,
                   txWrites, visible>>

\* await commitTransaction() / client.query('COMMIT') / tx.commit() / multi.exec()
TxCommit(ok) ==
    /\ UNCHANGED <<facadeVars, probe, compilerVars, adapterVars>>
    /\ txPc = "commit"
    /\ commits' = commits + 1
    /\ IF ok
       THEN /\ visible' = visible \cup txWrites
            /\ txWrites' = {}
            /\ TxSettle(TxReturned(ReturnValue(txKind)))
            /\ UNCHANGED txError
       ELSE /\ txError' = "commit"
            /\ UNCHANGED <<txWrites, visible>>
            /\ IF RollsBack(txKind)
               THEN txPc' = "rollback" /\ UNCHANGED <<txResult, held>>
               ELSE TxSettle(TxThrew(Wrapped("commit")))
    /\ UNCHANGED <<txKind, acquired, rollbacks, rollbackFailed, cbOutcome>>

\* the catch block: await abortTransaction() / client.query('ROLLBACK') /
\* tx.rollback(), then throw new DatabaseError(`Transaction failed: ...`);
\* a rejected rollback leaves the catch block with its own error
TxRollback(ok) ==
    /\ UNCHANGED <<facadeVars, probe, compilerVars, adapterVars>>
    /\ txPc = "rollback"
    /\ rollbacks' = rollbacks + 1
    /\ rollbackFailed' = ~ok
    /\ txWrites' = IF ok THEN {} ELSE txWrites
    /\ TxSettle(TxThrew(IF ok THEN Wrapped(txError) ELSE Raw("rollback")))
    /\ UNCHANGED <<txKind, acquired, commits, cbOutcome, txError, visible>>

----------------------------------------------------------------------------
(* The operator algebra: predicates and updates as the compilers read them *)

MaxOperators == 2

\* operand values, written as JavaScript literals: two numbers, a boolean and
\* the empty string
Values == {"0", "7", "false", "''"}

\* !v for an operand value
JsFalsy(v) == v \in {"0", "false", "''", "null", Undef}

\* the text a template literal inserts for a value
Interpolate(v) == IF v = "''" THEN "" ELSE v

\* JSON.stringify(v)
Stringify(v) == IF v = "''" THEN "\"\"" ELSE v

\* the decimal text of a parameter number
Str(n) ==
    CASE n = 0 -> "0"
      [] n = 1 -> "1" [] n = 2 -> "2" [] n = 3 -> "3" [] n = 4 -> "4"
      [] n = 5 -> "5" [] n = 6 -> "6" [] n = 7 -> "7" [] n = 8 -> "8"
      [] OTHER -> "9"

FieldKeys == {"age"}
PredicateOps == {"$eq", "$ne", "$gt", "$beginsWith", "$foo"}
UpdateOps == {"$set", "$unset", "$inc", "$push", "$pull", "$append", "$prepend"}

\* A document is the sequence of its fields in Object.entries order; a field
\* holds a literal or an operator map, itself a sequence of entries
Entry(operator, operand) == [operator |-> operator, operand |-> operand]
Literal(key, v) == [key |-> key, kind |-> "literal", literal |-> v, entries |-> <<>>]
OperatorMap(key, entries) ==
    [key |-> key, kind |-> "object", literal |-> Undef, entries |-> entries]

EntrySeqs(ops) ==
    {s \in UNION {[1..n -> {Entry(o, v) : o \in ops, v \in Values}] : n \in 1..MaxOperators} :
       \A i \in DOMAIN s, j \in DOMAIN s : i # j => s[i].operator # s[j].operator}

Docs(ops) ==
    UNION {{<<Literal(k, v)>> : v \in Values} \cup
           {<<OperatorMap(k, e)>> : e \in EntrySeqs(ops)} : k \in FieldKeys}

TimeRanges == [startTime : {Undef, "t1", "t2"}, endTime : {Undef, "t1", "t2"}]

\* one (key, operator, operand) triple per loop iteration of a compiler; a
\* literal field is the triple with the operator ""
FieldItems(f) ==
    IF f.kind = "literal"
    THEN << [key |-> f.key, operator |-> "", operand |-> f.literal] >>
    ELSE [n \in 1..Len(f.entries) |->
            [key |-> f.key, operator |-> f.entries[n].operator,
             operand |-> f.entries[n].operand]]

RECURSIVE Items(_)
Items(doc) == IF doc = <<>> THEN <<>> ELSE FieldItems(Head(doc)) \o Items(Tail(doc))

\* Object.keys(value)[0] and its operand, per field
FirstItems(doc) == [n \in 1..Len(doc) |-> FieldItems(doc[n])[1]]

\* value[operator] on the operator map of a field, undefined when absent
Operand(f, operator) ==
    IF \E n \in 1..Len(f.entries) : f.entries[n].operator = operator
    THEN f.entries[CHOOSE n \in 1..Len(f.entries) : f.entries[n].operator = operator].operand
    ELSE Undef

\* Array.prototype.join
RECURSIVE Join(_, _)
Join(seq, sep) ==
    IF seq = <<>> THEN ""
    ELSE IF Len(seq) = 1 THEN seq[1]
    ELSE seq[1] \o sep \o Join(Tail(seq), sep)

Min(S) == CHOOSE i \in S : \A j \in S : i <= j
Max(S) == CHOOSE i \in S : \A j \in S : i >= j

\* what a compiler returns, or the message of the error it throws
Compiled(clauses, text, values) ==
    [error |-> NoError, clauses |-> clauses, text |-> text, values |-> values]
Thrown(msg) == [error |-> msg, clauses |-> <<>>, text |-> "", values |-> <<>>]

\* the named bindings a compiler leaves in its values object: a later
\* assignment to the same name replaces the earlier one
Bindings(named) ==
    [n \in {named[i].name : i \in DOMAIN named} |->
       named[Max({i \in DOMAIN named : named[i].name = n})].value]

----------------------------------------------------------------------------
(* Predicate compilers *)

CockroachOperators ==
    {"$eq", "$ne", "$gt", "$gte", "$lt", "$lte", "$in", "$nin", "$like",
     "$ilike", "$contains", "$contained", "$overlap", "$any", "$all"}

Cockroach_buildOperatorCondition(key, operator, p) ==
    CASE operator = "$eq"        -> key \o " = " \o p
      [] operator = "$ne"        -> key \o " != " \o p
      [] operator = "$gt"        -> key \o " > " \o p
      [] operator = "$gte"       -> key \o " >= " \o p
      [] operator = "$lt"        -> key \o " < " \o p
      [] operator = "$lte"       -> key \o " <= " \o p
      [] operator = "$in"        -> key \o " = ANY(" \o p \o ")"
      [] operator = "$nin"       -> key \o " != ALL(" \o p \o ")"
      [] operator = "$like"      -> key \o " LIKE " \o p
      [] operator = "$ilike"     -> key \o " ILIKE " \o p
      [] operator = "$contains"  -> key \o " @> " \o p
      [] operator = "$contained" -> key \o " <@ " \o p
      [] operator = "$overlap"   -> key \o " && " \o p
      [] operator = "$any"       -> p \o " = ANY(" \o key \o ")"
      [] operator = "$all"       -> p \o " = ALL(" \o key \o ")"

Cockroach_buildWhereClause(query) ==
    LET items == Items(query)
        unknown == {i \in DOMAIN items : items[i].operator \notin CockroachOperators \cup {""}}
        conditions ==
          [i \in DOMAIN items |->
             IF items[i].operator = "" THEN items[i].key \o " = $" \o Str(i)
             ELSE Cockroach_buildOperatorCondition(items[i].key, items[i].operator,
                                                   "$" \o Str(i))]
    IN IF unknown # {}
       THEN Thrown("Unknown operator: " \o items[Min(unknown)].operator)
       ELSE Compiled(conditions, Join(conditions, " AND "),
                     [i \in DOMAIN items |-> items[i].operand])

InfluxOperators == {"$eq", "$ne", "$gt", "$gte", "$lt", "$lte", "$in"}

Influx_buildOperatorExpression(field, operator, value) ==
    CASE operator = "$eq"  -> "r[\"" \o field \o "\"] == " \o Stringify(value)
      [] operator = "$ne"  -> "r[\"" \o field \o "\"] != " \o Stringify(value)
      [] operator = "$gt"  -> "r[\"" \o field \o "\"] > " \o Interpolate(value)
      [] operator = "$gte" -> "r[\"" \o field \o "\"] >= " \o Interpolate(value)
      [] operator = "$lt"  -> "r[\"" \o field \o "\"] < " \o Interpolate(value)
      [] operator = "$lte" -> "r[\"" \o field \o "\"] <= " \o Interpolate(value)
      [] operator = "$in"  ->
           "contains(value: r[\"" \o field \o "\"], set: " \o Stringify(value) \o ")"

Influx_buildFilterExpression(filters) ==
    LET items == Items(filters)
        unknown == {i \in DOMAIN items : items[i].operator \notin InfluxOperators \cup {""}}
        expressions ==
          [i \in DOMAIN items |->
             IF items[i].operator = ""
             THEN "r[\"" \o items[i].key \o "\"] == " \o Stringify(items[i].operand)
             ELSE Influx_buildOperatorExpression(items[i].key, items[i].operator,
                                                 items[i].operand)]
    IN IF unknown # {}
       THEN Thrown("Unknown operator: " \o items[Min(unknown)].operator)
       ELSE Compiled(expressions, Join(expressions, " and "), <<>>)

ElasticsearchOperators == {"$eq", "$ne", "$gt", "$gte", "$lt", "$lte", "$in", "$nin"}

\* the query DSL object of one condition, written as its object literal
Elasticsearch_buildFilterClause(field, operator, value) ==
    LET term == "{term: {" \o field \o ": " \o Stringify(value) \o "}}"
        range(op) == "{range: {" \o field \o ": {" \o op \o ": " \o Stringify(value) \o "}}}"
        terms == "{terms: {" \o field \o ": " \o Stringify(value) \o "}}"
    IN CASE operator = "$eq"  -> term
         [] operator = "$ne"  -> "{bool: {must_not: " \o term \o "}}"
         [] operator = "$gt"  -> range("gt")
         [] operator = "$gte" -> range("gte")
         [] operator = "$lt"  -> range("lt")
         [] operator = "$lte" -> range("lte")
         [] operator = "$in"  -> terms
         [] operator = "$nin" -> "{bool: {must_not: " \o terms \o "}}"
         [] OTHER             -> term

Elasticsearch_buildFilterClauses(filter) ==
    LET items == Items(filter)
        clauses ==
          [i \in DOMAIN items |->
             Elasticsearch_buildFilterClause(items[i].key, items[i].operator,
                                             items[i].operand)]
    IN Compiled(clauses, "[" \o Join(clauses, ", ") \o "]", <<>>)

MongoOperatorMap ==
    {"$eq", "$ne", "$gt", "$gte", "$lt", "$lte", "$in", "$nin", "$regex", "$exists"}

\* an operator map written as its object literal
ObjectLiteral(entries) ==
    "{" \o Join([n \in DOMAIN entries |->
                   entries[n].operator \o ": " \o Stringify(entries[n].operand)], ", ")
        \o "}"

Mongo_processQueryOperators(query) ==
    LET processed ==
          [n \in DOMAIN query |->
             IF query[n].kind = "literal"
             THEN query[n].key \o ": " \o Stringify(query[n].literal)
             ELSE LET conditions ==
                        SelectSeq(query[n].entries,
                                  LAMBDA e : e.operator \in MongoOperatorMap)
                  IN query[n].key \o ": " \o
                       (IF Len(conditions) > 0 THEN ObjectLiteral(conditions)
                        ELSE ObjectLiteral(query[n].entries))]
    IN Compiled(processed, "{" \o Join(processed, ", ") \o "}", <<>>)

\* the elements of a sequence that are not undefined
Defined(seq) == SelectSeq(seq, LAMBDA x : x # Undef)

RECURSIVE Concat(_)
Concat(seqs) == IF seqs = <<>> THEN <<>> ELSE Head(seqs) \o Concat(Tail(seqs))

DynamoQueryOperators == {"$eq", "$lt", "$lte", "$gt", "$gte", "$between", "$beginsWith"}

\* the condition the switch pushes for one field, undefined when no case matches
DynamoQueryCondition(attrName, attrValue, operator) ==
    CASE operator \in {"", "$eq"} -> attrName \o " = " \o attrValue
      [] operator = "$lt"         -> attrName \o " < " \o attrValue
      [] operator = "$lte"        -> attrName \o " <= " \o attrValue
      [] operator = "$gt"         -> attrName \o " > " \o attrValue
      [] operator = "$gte"        -> attrName \o " >= " \o attrValue
      [] operator = "$between"    ->
           attrName \o " BETWEEN " \o attrValue \o "_start AND " \o attrValue \o "_end"
      [] operator = "$beginsWith" -> "begins_with(" \o attrName \o ", " \o attrValue \o ")"
      [] OTHER                    -> Undef

\* only Object.keys(value)[0] of an operator map is read; operand[0] and
\* operand[1] of a number, a boolean or the empty string are undefined
Dynamo_buildQueryExpression(query) ==
    LET items == FirstItems(query)
        conditions ==
          Defined([i \in DOMAIN items |->
                     DynamoQueryCondition("#" \o items[i].key, ":" \o items[i].key,
                                          items[i].operator)])
        named ==
          Concat([i \in DOMAIN items |->
                    <<[name |-> ":" \o items[i].key, value |-> items[i].operand]>> \o
                    (IF items[i].operator = "$between"
                     THEN <<[name |-> ":" \o items[i].key \o "_start", value |-> Undef],
                            [name |-> ":" \o items[i].key \o "_end", value |-> Undef]>>
                     ELSE <<>>)])
    IN Compiled(conditions, Join(conditions, " AND "), Bindings(named))

DynamoFilterOperators == {"$eq", "$ne", "$in", "$contains", "$exists", "$type"}

DynamoFilterCondition(attrName, valueKey, operator, operand) ==
    CASE operator = ""          -> attrName \o " = " \o valueKey
      [] operator = "$eq"       -> attrName \o " = " \o valueKey
      [] operator = "$ne"       -> attrName \o " <> " \o valueKey
      [] operator = "$contains" -> "contains(" \o attrName \o ", " \o valueKey \o ")"
      [] operator = "$exists"   ->
           IF JsFalsy(operand) THEN "attribute_not_exists(" \o attrName \o ")"
           ELSE "attribute_exists(" \o attrName \o ")"
      [] operator = "$type"     -> "attribute_type(" \o attrName \o ", " \o valueKey \o ")"
      [] OTHER                  -> Undef

\* operand.map of the $in case throws for an operand that is not an array
Dynamo_buildFilterExpression(filter) ==
    LET items == Items(filter)
        valueKey(i) ==
          IF items[i].operator = "" THEN ":" \o items[i].key
          ELSE ":" \o items[i].key \o "_" \o items[i].operator
        conditions ==
          Defined([i \in DOMAIN items |->
                     DynamoFilterCondition("#" \o items[i].key, valueKey(i),
                                           items[i].operator, items[i].operand)])
        named ==
          Concat([i \in DOMAIN items |->
                    IF items[i].operator = "$exists" THEN <<>>
                    ELSE <<[name |-> valueKey(i), value |-> items[i].operand]>>])
    IN IF \E i \in DOMAIN items : items[i].operator = "$in"
       THEN Thrown("operand.map is not a function")
       ELSE Compiled(conditions,
                     IF Len(conditions) > 0 THEN Join(conditions, " AND ") ELSE Undef,
                     IF Len(named) > 0 THEN Bindings(named) ELSE Undef)

Timescale_buildTimeWhereClause(timeColumn, startTime, endTime) ==
    LET conditions ==
          (IF Truthy(startTime) THEN <<timeColumn \o " >= '" \o startTime \o "'">> ELSE <<>>) \o
          (IF Truthy(endTime) THEN <<timeColumn \o " <= '" \o endTime \o "'">> ELSE <<>>)
    IN Compiled(conditions,
                IF Len(conditions) > 0 THEN Join(conditions, " AND ") ELSE "1=1",
                <<>>)

----------------------------------------------------------------------------
(* Update compilers *)

\* the section and the item the switch pushes for one field, and whether the
\* operand is bound under the field's value name
DynamoUpdateItem(attrName, attrValue, operator) ==
    CASE operator \in {"", "$set"} ->
           [section |-> "SET", item |-> attrName \o " = " \o attrValue, bound |-> TRUE]
      [] operator = "$remove" ->
           [section |-> "REMOVE", item |-> attrName, bound |-> FALSE]
      [] operator = "$add" ->
           [section |-> "ADD", item |-> attrName \o " " \o attrValue, bound |-> TRUE]
      [] operator = "$delete" ->
           [section |-> "DELETE", item |-> attrName \o " " \o attrValue, bound |-> TRUE]
      [] operator = "$append" ->
           [section |-> "SET", bound |-> TRUE,
            item |-> attrName \o " = list_append(" \o attrName \o ", " \o attrValue \o ")"]
      [] operator = "$prepend" ->
           [section |-> "SET", bound |-> TRUE,
            item |-> attrName \o " = list_append(" \o attrValue \o ", " \o attrName \o ")"]
      [] OTHER ->
           [section |-> "", item |-> Undef, bound |-> FALSE]

Dynamo_buildUpdateExpression(update) ==
    LET items == FirstItems(update)
        pushed == [i \in DOMAIN items |->
                     DynamoUpdateItem("#" \o items[i].key, ":" \o items[i].key,
                                      items[i].operator)]
        section(action) ==
          Defined([i \in DOMAIN items |->
                     IF pushed[i].section = action THEN pushed[i].item ELSE Undef])
        part(action) ==
          IF Len(section(action)) > 0
          THEN <<action \o " " \o Join(section(action), ", ")>> ELSE <<>>
        named ==
          Concat([i \in DOMAIN items |->
                    IF pushed[i].bound
                    THEN <<[name |-> ":" \o items[i].key, value |-> items[i].operand]>>
                    ELSE <<>>])
    IN Compiled(section("SET") \o section("REMOVE") \o section("ADD") \o section("DELETE"),
                Join(part("SET") \o part("REMOVE") \o part("ADD") \o part("DELETE"), " "),
                Bindings(named))

\* a document written as its object literal
DocLiteral(doc) ==
    "{" \o Join([n \in DOMAIN doc |->
                   doc[n].key \o ": " \o
                     (IF doc[n].kind = "literal" THEN Stringify(doc[n].literal)
                      ELSE ObjectLiteral(doc[n].entries))], ", ")
        \o "}"

\* update.$set || update.$unset || update.$push || update.$pull reads the
\* top-level keys of the update; an operator map is a truthy value
Mongo_convertUpdateOperations(update) ==
    IF \E n \in DOMAIN update :
         /\ update[n].key \in {"$set", "$unset", "$push", "$pull"}
         /\ (update[n].kind = "object" \/ ~JsFalsy(update[n].literal))
    THEN Compiled([n \in DOMAIN update |-> DocLiteral(<<update[n]>>)],
                  DocLiteral(update), <<>>)
    ELSE Compiled(<<"$set: " \o DocLiteral(update)>>,
                  "{$set: " \o DocLiteral(update) \o "}", <<>>)

\* the SET list of the statement and its parameters, for fields that are
\* not key columns
Cassandra_buildUpdateQuery(update) ==
    LET set(f) ==
          IF f.kind = "literal" THEN [clause |-> f.key \o " = ?", param |-> f.literal]
          ELSE IF ~JsFalsy(Operand(f, "$add"))
          THEN [clause |-> f.key \o " = " \o f.key \o " + ?", param |-> Operand(f, "$add")]
          ELSE IF ~JsFalsy(Operand(f, "$remove"))
          THEN [clause |-> f.key \o " = " \o f.key \o " - ?", param |-> Operand(f, "$remove")]
          ELSE IF ~JsFalsy(Operand(f, "$set"))
          THEN [clause |-> f.key \o " = ?", param |-> Operand(f, "$set")]
          ELSE [clause |-> Undef, param |-> Undef]
        sets == Defined([n \in DOMAIN update |-> set(update[n]).clause])
        params ==
          Concat([n \in DOMAIN update |->
                    IF set(update[n]).clause = Undef THEN <<>>
                    ELSE <<set(update[n]).param>>])
    IN Compiled(sets, "SET " \o Join(sets, ", "), params)

\* _formatValue leaves a value of a column without a special type as it is
Cockroach_buildSetClause(update) ==
    LET branch(f) ==
          IF f.kind = "literal" THEN [op |-> " = ", param |-> f.literal]
          ELSE IF ~JsFalsy(Operand(f, "$inc"))
          THEN [op |-> " = " \o f.key \o " + ", param |-> Operand(f, "$inc")]
          ELSE IF ~JsFalsy(Operand(f, "$set"))
          THEN [op |-> " = ", param |-> Operand(f, "$set")]
          ELSE IF ~JsFalsy(Operand(f, "$push"))
          THEN [op |-> " = array_append", param |-> Operand(f, "$push")]
          ELSE IF ~JsFalsy(Operand(f, "$pull"))
          THEN [op |-> " = array_remove", param |-> Operand(f, "$pull")]
          ELSE IF ~JsFalsy(Operand(f, "$unset"))
          THEN [op |-> " = NULL", param |-> Undef]
          ELSE [op |-> Undef, param |-> Undef]
        paramCount(n) ==
          1 + Cardinality({m \in 1..(n - 1) : branch(update[m]).param # Undef})
        clause(n) ==
          LET b == branch(update[n])
              key == update[n].key
              p == "$" \o Str(paramCount(n))
          IN IF b.op = Undef THEN Undef
             ELSE IF b.param = Undef THEN key \o b.op
             ELSE IF b.op \in {" = array_append", " = array_remove"}
             THEN key \o b.op \o "(" \o key \o ", " \o p \o ")"
             ELSE key \o b.op \o p
        setClauses == Defined([n \in DOMAIN update |-> clause(n)])
        values ==
          Concat([n \in DOMAIN update |->
                    IF branch(update[n]).param = Undef THEN <<>>
                    ELSE <<branch(update[n]).param>>])
    IN Compiled(setClauses, Join(setClauses, ", "), values)

\* the operations object, one property per field the switch assigned
Arango_buildUpdateOperations(update) ==
    LET items == FirstItems(update)
        operation(key, operator, operand) ==
          CASE operator \in {"", "$set"} -> key \o ": " \o Stringify(operand)
            [] operator = "$unset" -> key \o ": null"
            [] operator = "$inc"   ->
                 key \o ": doc." \o key \o " + " \o Stringify(operand)
            [] operator = "$push"  ->
                 key \o ": APPEND(doc." \o key \o ", " \o Stringify(operand) \o ")"
            [] operator = "$pull"  ->
                 key \o ": REMOVE_VALUES(doc." \o key \o ", " \o Stringify(operand) \o ")"
            [] OTHER               -> Undef
        operations ==
          Defined([i \in DOMAIN items |->
                     operation(items[i].key, items[i].operator, items[i].operand)])
    IN Compiled(operations, "{" \o Join(operations, ", ") \o "}", <<>>)

----------------------------------------------------------------------------
(* Statement builders and the named-parameter compiler of OrientDBAdapter *)

\* update(tableName, query, update): the SET values come first in the value
\* list, the WHERE values after them; clauses are the WHERE conditions
Cockroach_update(query, update) ==
    LET where == Cockroach_buildWhereClause(query)
        setClause == Cockroach_buildSetClause(update)
    IN IF where.error # NoError THEN Thrown("Update failed: " \o where.error)
       ELSE Compiled(where.clauses,
                     "UPDATE t SET " \o setClause.text
                       \o (IF where.text # "" THEN " WHERE " \o where.text ELSE ""),
                     setClause.values \o where.values)

Cockroach_delete(query) ==
    LET where == Cockroach_buildWhereClause(query)
    IN IF where.error # NoError THEN Thrown("Delete failed: " \o where.error)
       ELSE Compiled(where.clauses,
                     "DELETE FROM t"
                       \o (IF where.text # "" THEN " WHERE " \o where.text ELSE ""),
                     where.values)

\* one condition key = ? per key of the query, whatever its value
Cassandra_buildDeleteQuery(query) ==
    LET whereConditions == [n \in DOMAIN query |-> query[n].key \o " = ?"]
        params == [n \in DOMAIN query |->
                     IF query[n].kind = "literal" THEN query[n].literal
                     ELSE ObjectLiteral(query[n].entries)]
    IN Compiled(whereConditions,
                "DELETE FROM t WHERE " \o Join(whereConditions, " AND "), params)

OrientOperators ==
    {"$eq", "$ne", "$gt", "$gte", "$lt", "$lte", "$in", "$nin", "$contains",
     "$containsAll", "$containsText", "$between", "$matches", "$like"}

\* the condition of one operator, the names of the placeholders in it and
\* the parameter returned next to it
Orient_buildOperatorCondition(field, operator, value, counter) ==
    LET paramName == "p" \o Str(counter)
        infix(symbol) == field \o " " \o symbol \o " :" \o paramName
        array == "[" \o Stringify(value) \o "]"
        one(condition, parameter) ==
          [condition |-> condition, placeholders |-> {paramName},
           parameter |-> parameter]
    IN CASE operator = "$eq"           -> one(infix("="), value)
         [] operator = "$ne"           -> one(infix("<>"), value)
         [] operator = "$gt"           -> one(infix(">"), value)
         [] operator = "$gte"          -> one(infix(">="), value)
         [] operator = "$lt"           -> one(infix("<"), value)
         [] operator = "$lte"          -> one(infix("<="), value)
         [] operator = "$in"           -> one(infix("IN"), array)
         [] operator = "$nin"          -> one(infix("NOT IN"), array)
         [] operator = "$contains"     -> one(infix("CONTAINS"), value)
         [] operator = "$containsAll"  -> one(infix("CONTAINSALL"), array)
         [] operator = "$containsText" -> one(infix("CONTAINSTEXT"), value)
         [] operator = "$between"      ->
              [condition |-> field \o " BETWEEN :" \o paramName \o "_start AND :"
                               \o paramName \o "_end",
               placeholders |-> {paramName \o "_start", paramName \o "_end"},
               parameter |-> "{" \o paramName \o "_start, " \o paramName \o "_end}"]
         [] operator = "$matches"      -> one(infix("MATCHES"), value)
         [] operator = "$like"         -> one(infix("LIKE"), value)

\* paramCounter is i - 1 when item i is reached. A literal field binds
\* p<counter> and increments afterwards; an operator passes paramCounter++
\* to _buildOperatorCondition and then binds p<paramCounter>, the name after
\* the increment. Each clause is the condition with the placeholders in it
\* and the operand of its item
Orient_buildWhereClause(query) ==
    LET items == Items(query)
        unknown == {i \in DOMAIN items : items[i].operator \notin OrientOperators \cup {""}}
        built(i) == Orient_buildOperatorCondition(items[i].key, items[i].operator,
                                                  items[i].operand, i - 1)
        conditions ==
          [i \in DOMAIN items |->
             IF items[i].operator = ""
             THEN [text |-> items[i].key \o " = :p" \o Str(i - 1),
                   placeholders |-> {"p" \o Str(i - 1)},
                   operand |-> items[i].operand]
             ELSE [text |-> built(i).condition,
                   placeholders |-> built(i).placeholders,
                   operand |-> items[i].operand]]
        params ==
          [i \in DOMAIN items |->
             IF items[i].operator = ""
             THEN [name |-> "p" \o Str(i - 1), value |-> items[i].operand]
             ELSE [name |-> "p" \o Str(i), value |-> built(i).parameter]]
    IN IF unknown # {}
       THEN Thrown("Unknown operator: " \o items[Min(unknown)].operator)
       ELSE Compiled(conditions,
                     IF Len(conditions) > 0
                     THEN Join([i \in DOMAIN conditions |-> conditions[i].text], " AND ")
                     ELSE "1=1",
                     Bindings(params))

----------------------------------------------------------------------------
(* MongoAdapter over one collection *)

MaxRecords == 2

StoreFields == {"age", "rank"}
StoreValues == {"0", "7"}
Records == [StoreFields -> StoreValues]

\* this.models holds the models defined so far
Models == {"User"}
ModelArgs == {"User", "Ghost"}

\* the model name a call passes and whether its driver call reaches the
\* server ("up") or not ("down")
Calls == {<<"User", "up">>, <<"User", "down">>, <<"Ghost", "up">>}

\* the adapters whose count and exists are compared
StoreKinds == {"MongoAdapter", "CockroachDBAdapter"}

\* the predicates: {}, {age: v}, {age: {op: v}}
StoreQueryOps == {"$ne", "$foo"}
StoreQueries ==
    {<<>>}
      \cup {<<Literal("age", v)>> : v \in StoreValues}
      \cup {<<OperatorMap("age", <<Entry(op, v)>>)>> :
              op \in StoreQueryOps, v \in StoreValues}

\* {$set: {f: v}} and the bare {f: v}
UpdateDocs ==
    {<<OperatorMap("$set", <<Entry(f, v)>>)>> : f \in StoreFields, v \in StoreValues}
      \cup {<<Literal(f, v)>> : f \in StoreFields, v \in StoreValues}

\* what an operation settles with: the error it rejects with, or the count,
\* flag or records it fulfils with
Fulfilled(count, flag, docs) ==
    [error |-> NoError, count |-> count, flag |-> flag, docs |-> docs]
Rejected(msg) == [error |-> msg, count |-> 0, flag |-> FALSE, docs |-> <<>>]

\* the document _convertQuery hands to the driver
Mongo_convertQuery(query) ==
    [n \in DOMAIN query |->
       IF query[n].kind = "literal" THEN query[n]
       ELSE LET conditions ==
                  SelectSeq(query[n].entries,
                            LAMBDA e : e.operator \in MongoOperatorMap)
            IN IF Len(conditions) > 0 THEN OperatorMap(query[n].key, conditions)
               ELSE query[n]]

\* the document _convertUpdateOperations hands to the driver
Mongo_updateDocumentEmpty(update) == <<>>
Mongo_updateDocument(update) ==
    IF \E n \in DOMAIN update :
         /\ update[n].key \in {"$set", "$unset", "$push", "$pull"}
         /\ (update[n].kind = "object" \/ ~JsFalsy(update[n].literal))
    THEN update
    ELSE <<OperatorMap("$set",
             [n \in DOMAIN update |->
                Entry(update[n].key,
                      IF update[n].kind = "literal" THEN update[n].literal
                      ELSE ObjectLiteral(update[n].entries))])>>

\* the server's reading of the operand tokens as numbers
TokenNumber(v) == IF v = "7" THEN 7 ELSE 0

\* the server refuses a filter that still holds an operator it does not know
ServerRejects(filter) ==
    \E n \in DOMAIN filter :
       /\ filter[n].kind = "object"
       /\ \E i \in DOMAIN filter[n].entries :
            filter[n].entries[i].operator \notin MongoOperatorMap

ServerTest(value, e) ==
    CASE e.operator = "$eq" -> value = e.operand
      [] e.operator = "$ne" -> value # e.operand
      [] e.operator = "$gt" -> TokenNumber(value) > TokenNumber(e.operand)

ServerMatches(record, filter) ==
    \A n \in DOMAIN filter :
       IF filter[n].kind = "literal" THEN record[filter[n].key] = filter[n].literal
       ELSE \A i \in DOMAIN filter[n].entries :
              ServerTest(record[filter[n].key], filter[n].entries[i])

Matching(coll, filter) == {i \in DOMAIN coll : ServerMatches(coll[i], filter)}

\* the record after the server applied the $set entries of an update document
ServerSet(record, updateDoc) ==
    LET sets == Concat([n \in DOMAIN updateDoc |->
                          IF updateDoc[n].key = "$set" /\ updateDoc[n].kind = "object"
                          THEN updateDoc[n].entries ELSE <<>>])
    IN [f \in StoreFields |->
          LET at == {j \in DOMAIN sets : sets[j].operator = f}
          IN IF at = {} THEN record[f] ELSE sets[Max(at)].operand]

\* the driver call of an operation: it rejects when the server is not
\* reached or refuses the filter
DriverError(filter, driver) ==
    IF driver = "down" THEN "connection lost"
    ELSE IF ServerRejects(filter) THEN "unknown operator"
    ELSE NoError

ModelError(model) ==
    IF model \in Models THEN NoError ELSE "Model " \o model \o " not found"

\* the error of the try block of an operation: _getModel first, then the
\* driver call
TryError(model, query, driver) ==
    IF ModelError(model) # NoError THEN ModelError(model)
    ELSE DriverError(Mongo_convertQuery(query), driver)

Mongo_count(coll, model, query, driver) ==
    LET error == TryError(model, query, driver)
    IN IF error # NoError THEN Rejected("Count operation failed: " \o error)
       ELSE Fulfilled(Cardinality(Matching(coll, Mongo_convertQuery(query))),
                      FALSE, <<>>)

Mongo_existsNonNegative(coll, model, query, driver) ==
    LET count == Mongo_count(coll, model, query, driver)
    IN IF count.error # NoError
       THEN Rejected("Exists operation failed: " \o count.error)
       ELSE Fulfilled(0, count.count >= 0, <<>>)

Mongo_exists(coll, model, query, driver) ==
    LET count == Mongo_count(coll, model, query, driver)
    IN IF count.error # NoError
       THEN Rejected("Exists operation failed: " \o count.error)
       ELSE Fulfilled(0, count.count > 0, <<>>)

Mongo_findOne(coll, model, query, driver) ==
    LET error == TryError(model, query, driver)
        found == Matching(coll, Mongo_convertQuery(query))
    IN IF error # NoError THEN Rejected("Find operation failed: " \o error)
       ELSE IF found = {} THEN Fulfilled(0, FALSE, <<>>)
       ELSE Fulfilled(0, TRUE, <<coll[Min(found)]>>)

\* the collection after updateMany
Mongo_updated(coll, query, data) ==
    LET filter == Mongo_convertQuery(query)
    IN [i \in DOMAIN coll |->
          IF ServerMatches(coll[i], filter)
          THEN ServerSet(coll[i], Mongo_updateDocument(data))
          ELSE coll[i]]

Mongo_update(coll, model, query, data, driver) ==
    LET error == TryError(model, query, driver)
    IN IF error # NoError THEN Rejected("Update operation failed: " \o error)
       ELSE Fulfilled(Cardinality(Matching(coll, Mongo_convertQuery(query))),
                      FALSE, <<>>)

\* count and exists of the adapter classes: CockroachDBAdapter throws from both
count(kind, coll, model, query, driver) ==
    IF kind = "CockroachDBAdapter" THEN Rejected("Not implemented")
    ELSE Mongo_count(coll, model, query, driver)

exists(kind, coll, model, query, driver) ==
    IF kind = "CockroachDBAdapter" THEN Rejected("Not implemented")
    ELSE Mongo_exists(coll, model, query, driver)

\* what the operations on the collection leave alone
outsideStore == <<facadeVars, probe, txVars, compilerVars, redisVars, batch, lifeVars>>

\* no update precedes the operation
NoWrite == [data |-> <<>>, before |-> <<>>]

\* no operation has run
NoCrud == [op |-> "none", kind |-> "none", model |-> "", query |-> <<>>,
           driver |-> "up", out |-> Fulfilled(0, FALSE, <<>>), write |-> NoWrite]

\* the operation that ran last, with its arguments and what it settled with;
\* write is the update the operation is, or directly follows on the same
\* model and predicate
Ran(op, kind, model, query, driver, out, write) ==
    [op |-> op, kind |-> kind, model |-> model, query |-> query,
     driver |-> driver, out |-> out, write |-> write]

Create(record) ==
    /\ Len(collection) < MaxRecords
    /\ collection' = Append(collection, record)
    /\ crud' = Ran("create", "MongoAdapter", "User", <<>>, "up",
                   Fulfilled(0, FALSE, <<record>>), NoWrite)
    /\ UNCHANGED outsideStore

Count(kind, model, query, driver) ==
    /\ crud' = Ran("count", kind, model, query, driver,
                   count(kind, collection, model, query, driver), NoWrite)
    /\ UNCHANGED <<collection, outsideStore>>

Exists(kind, model, query, driver) ==
    /\ crud' = Ran("exists", kind, model, query, driver,
                   exists(kind, collection, model, query, driver), NoWrite)
    /\ UNCHANGED <<collection, outsideStore>>

Update(model, query, data, driver) ==
    LET out == Mongo_update(collection, model, query, data, driver)
    IN /\ IF out.error = NoError
          THEN /\ collection' = Mongo_updated(collection, query, data)
               /\ crud' = Ran("update", "MongoAdapter", model, query, driver, out,
                              [data |-> data, before |-> collection])
          ELSE /\ crud' = Ran("update", "MongoAdapter", model, query, driver, out, NoWrite)
               /\ UNCHANGED collection
       /\ UNCHANGED outsideStore

FindOne(model, query, driver) ==
    /\ crud' = Ran("findOne", "MongoAdapter", model, query, driver,
                   Mongo_findOne(collection, model, query, driver),
                   IF crud.op = "update" /\ crud.model = model /\ crud.query = query
                   THEN crud.write ELSE NoWrite)
    /\ UNCHANGED <<collection, outsideStore>>

----------------------------------------------------------------------------
(* RedisAdapter over one server *)

MaxTime == 3

RedisKeys == {"session", "cart"}
TTLs == {0, 1, 2}

\* JavaScript values by type, written as their JSON text (a string as its
\* characters)
JsString(text) == [type |-> "string", text |-> text]
JsNumber(text) == [type |-> "number", text |-> text]
JsObject(text) == [type |-> "object", text |-> text]
JsNull == [type |-> "null", text |-> "null"]

\* the values with a JSON text among the stored ones
JsonValues == {JsNumber("123"), JsObject("{a: 1}")}

StorableValues ==
    {JsString("abc"), JsString("123"), JsString("{a: 1}")} \cup JsonValues

JSON_stringify(value) == value.text

\* JSON.parse returns the value a JSON text denotes and throws on any
\* other text
JSON_parses(text) == \E v \in JsonValues : v.text = text
JSON_parse(text) == CHOOSE v \in JsonValues : v.text = text

Redis_serialize(value) ==
    IF value.type = "string" THEN value.text ELSE JSON_stringify(value)

\* the reply of GET is null (written "null") or the text of the key
Redis_deserialize(text) ==
    IF text = "null" THEN JsNull
    ELSE IF JSON_parses(text) THEN JSON_parse(text)
    ELSE JsString(text)

\* a key the server does not hold; expires = 0 is a key without expiry
NoEntry == [set |-> FALSE, text |-> "", expires |-> 0, ttl |-> 0, stored |-> JsNull]

\* the key is held and its expiry, if it has one, is still ahead
Live(entry, time) == entry.set /\ (entry.expires = 0 \/ time < entry.expires)

\* the server's SET key text [EX ttl] and GET key
ServerSetKey(text, ttl, value, time) ==
    [set |-> TRUE, text |-> text, expires |-> IF ttl # 0 THEN time + ttl ELSE 0,
     ttl |-> ttl, stored |-> value]
ServerGet(entry, time) == IF Live(entry, time) THEN entry.text ELSE "null"

NoRedisOut == [op |-> "none", key |-> "", value |-> JsNull, entry |-> NoEntry,
               live |-> FALSE]

outsideRedis == <<facadeVars, probe, txVars, compilerVars, storeVars, batch, lifeVars>>

\* create(key, value, {ttl}): if (ttl) args.push('EX', ttl)
RedisCreate(key, value, ttl) ==
    /\ redisData' = [redisData EXCEPT
                       ![key] = ServerSetKey(Redis_serialize(value), ttl, value, now)]
    /\ redisOut' = [op |-> "create", key |-> key, value |-> value,
                    entry |-> redisData'[key], live |-> TRUE]
    /\ UNCHANGED <<now, outsideRedis>>

\* get(key), remembered with the entry of the key and whether it was live
RedisGet(key) ==
    /\ redisOut' = [op |-> "get", key |-> key,
                    value |-> Redis_deserialize(ServerGet(redisData[key], now)),
                    entry |-> redisData[key], live |-> Live(redisData[key], now)]
    /\ UNCHANGED <<redisData, now, outsideRedis>>

Tick ==
    /\ now < MaxTime
    /\ now' = now + 1
    /\ UNCHANGED <<redisData, redisOut, outsideRedis>>

----------------------------------------------------------------------------
(* DynamoDBAdapter.batchWrite and batchGet *)

MaxItems == 3

\* the put / delete requests or keys of one table a batch may name
BatchItems == 1..MaxItems
BatchKinds == {"batchWrite", "batchGet"}

\* pc: "idle", "awaiting" the backend call of the while loop, "returned",
\* "threw"; unprocessed: the RequestItems of the call awaited; processed:
\* the items of the results returned to the caller; parity: the number of
\* backend calls made so far (results.length), modulo 2
NoBatch == [pc |-> "idle", kind |-> "none", requested |-> {}, unprocessed |-> {},
            processed |-> {}, parity |-> 0]

outsideBatch == <<facadeVars, probe, txVars, compilerVars, storeVars, redisVars, lifeVars>>

\* the operations are grouped and the while loop is entered when
\* RequestItems has a key
BatchStart(kind, operations) ==
    /\ batch.pc # "awaiting"
    /\ batch' = [pc |-> IF operations = {} THEN "returned" ELSE "awaiting",
                 kind |-> kind, requested |-> operations,
                 unprocessed |-> operations, processed |-> {}, parity |-> 0]
    /\ UNCHANGED outsideBatch

\* the backend call fulfils, reporting the items left as unprocessed: the
\* loop ends when there are none and submits them again otherwise
BatchReply(left) ==
    /\ batch.pc = "awaiting"
    /\ left \subseteq batch.unprocessed
    /\ batch' = [batch EXCEPT
                   !.pc = IF left = {} THEN "returned" ELSE "awaiting",
                   !.unprocessed = left,
                   !.parity = (batch.parity + 1) % 2,
                   !.processed = batch.processed \cup (batch.unprocessed \ left)]
    /\ UNCHANGED outsideBatch

\* the backend call rejects: the catch block throws the wrapped error
BatchReject ==
    /\ batch.pc = "awaiting"
    /\ batch' = [batch EXCEPT !.pc = "threw"]
    /\ UNCHANGED outsideBatch

----------------------------------------------------------------------------
(* initialize() and close() of one adapter *)

MaxNatives == 3

LifeKinds == {"MongoAdapter", "RedisAdapter", "InfluxDBAdapter", "CockroachDBAdapter"}

\* initialize() of MongoAdapter assigns this.connection when createConnection
\* has resolved; the others assign the client or pool they construct and
\* test it afterwards
AssignsBeforeTest(kind) == kind # "MongoAdapter"

\* close() of MongoAdapter is guarded by if (this.connection), sets the
\* field to null and has no catch block; the others call the driver on
\* whatever the field holds, keep the field and wrap what is thrown
GuardsClose(kind) == kind = "MongoAdapter"
ClearsHandle(kind) == kind = "MongoAdapter"

CloseError(kind, msg) ==
    CASE kind = "MongoAdapter" -> msg
      [] kind = "RedisAdapter" -> "Redis close failed: " \o msg
      [] OTHER -> "Close failed: " \o msg

\* handle: the index in natives of the connection, client or pool the
\* adapter's field holds, 0 for null; op, calls, error: the last call, the
\* driver calls it made and the error it threw; second: the call is a
\* close() that directly follows a close() that succeeded
NoLife == [kind |-> "none", handle |-> 0, op |-> "none", calls |-> 0,
           error |-> NoError, second |-> FALSE]

Open == {n \in DOMAIN natives : natives[n] = "open"}

outsideLife == <<facadeVars, probe, txVars, compilerVars, storeVars, redisVars, batch>>

\* new AdapterClass(config): the field is null
Construct(kind) ==
    /\ life.kind = "none"
    /\ life' = [NoLife EXCEPT !.kind = kind]
    /\ UNCHANGED <<natives, outsideLife>>

\* initialize(); ok: the connection is established and answers the test
LifeInitialize(ok) ==
    /\ life.kind # "none"
    /\ Len(natives) < MaxNatives
    /\ LET opened == ok \/ AssignsBeforeTest(life.kind)
       IN /\ natives' = IF opened THEN Append(natives, "open") ELSE natives
          /\ life' = [life EXCEPT
                        !.handle = IF opened THEN Len(natives) + 1 ELSE @,
                        !.op = "initialize",
                        !.calls = 1,
                        !.error = IF ok THEN NoError ELSE "initialization failed",
                        !.second = FALSE]
    /\ UNCHANGED outsideLife

\* close(); ok: the driver's close, quit or end resolves
LifeClose(ok) ==
    /\ life.kind # "none"
    /\ LET second == life.op = "close" /\ life.error = NoError
           closed(calls, error) ==
             [life EXCEPT !.op = "close", !.calls = calls, !.error = error,
                          !.second = second]
       IN IF life.handle = 0
          THEN /\ life' = IF GuardsClose(life.kind) THEN closed(0, NoError)
                          ELSE closed(0, CloseError(life.kind,
                                     "Cannot read properties of null"))
               /\ UNCHANGED natives
          ELSE IF ok
          THEN /\ natives' = [natives EXCEPT ![life.handle] = "closed"]
               /\ life' = [closed(1, NoError) EXCEPT
                             !.handle = IF ClearsHandle(life.kind) THEN 0 ELSE @]
          ELSE /\ life' = closed(1, CloseError(life.kind, "close rejected"))
               /\ UNCHANGED natives
    /\ UNCHANGED outsideLife

----------------------------------------------------------------------------
(* Specifications *)

Constructed ==
    /\ adapters = BuiltinAdapters
    /\ connections = EmptyMap
    /\ instances = <<>>
    /\ result = [op |-> "none", ret |-> 0, constructed |-> FALSE, error |-> NoError]
    /\ closePc = "idle"
    /\ pending = {}
    /\ orphan = {}
    /\ closeFailures = {}
    /\ closeAllResult = [status |-> "none", errors |-> {}]
    /\ probe = NoProbe
    /\ txKind = "none"
    /\ txPc = "idle"
    /\ held = FALSE
    /\ acquired = FALSE
    /\ commits = 0
    /\ rollbacks = 0
    /\ rollbackFailed = FALSE
    /\ cbOutcome = "none"
    /\ txError = "none"
    /\ txWrites = {}
    /\ visible = {}
    /\ txResult = [status |-> "none", value |-> "none", error |-> Raw("none")]
    /\ collection = <<>>
    /\ crud = NoCrud
    /\ redisData = [key \in RedisKeys |-> NoEntry]
    /\ now = 0
    /\ redisOut = NoRedisOut
    /\ batch = NoBatch
    /\ natives = <<>>
    /\ life = NoLife

\* nothing handed to a compiler
NoInput == [kind |-> "none", doc |-> <<>>]
NoOutput == [compiler |-> "none", out |-> Compiled(<<>>, "", <<>>)]

Init ==
    /\ Constructed
    /\ compileIn = NoInput
    /\ compileOut = NoOutput

\* The facade with callers that connect, initialize the adapters they hold
\* and call closeAll
Connect(type, config) == connect(type, config) /\ UNCHANGED <<probe, txVars, compilerVars, adapterVars>>
Initialize(i, ok) == initialize(i, ok) /\ UNCHANGED <<probe, txVars, compilerVars, adapterVars>>
CloseAllCall == closeAll /\ UNCHANGED <<probe, txVars, compilerVars, adapterVars>>
CloseFulfil(i) == closeFulfilled(i) /\ UNCHANGED <<probe, txVars, compilerVars, adapterVars>>
CloseEmpty == closeAllEmpty /\ UNCHANGED <<probe, txVars, compilerVars, adapterVars>>
CloseReject(i) == closeRejected(i) /\ UNCHANGED <<probe, txVars, compilerVars, adapterVars>>
OrphanSettle(i, ok) == orphanSettled(i, ok) /\ UNCHANGED <<probe, txVars, compilerVars, adapterVars>>

Next ==
    \/ \E type \in TypeNames, config \in Configs : Connect(type, config)
    \/ \E i \in Ids, ok \in BOOLEAN : Initialize(i, ok)
    \/ CloseAllCall
    \/ \E i \in pending : CloseFulfil(i)
    \/ CloseEmpty
    \/ \E i \in pending : CloseReject(i)
    \/ \E i \in orphan, ok \in BOOLEAN : OrphanSettle(i, ok)

Spec == Init /\ [][Next]_vars

\* Bookkeeping for a connect(type, config) step: either the call is remembered
\* as the first of a pair, or, when it repeats the remembered call, its outcome
\* is recorded next to the first one
ProbeConnect(type, config) ==
    IF probe.calls > 0 /\ probe.type = type /\ probe.config = config
    THEN probe' = [probe EXCEPT !.calls = 2, !.again = result'.ret,
                     !.constructions = IF result'.constructed /\ probe.calls = 1
                                       THEN @ + 1 ELSE @]
    ELSE \/ probe' = probe
         \/ /\ result'.error = NoError
            /\ probe' = [type |-> type, config |-> config, ret |-> result'.ret,
                         calls |-> 1, again |-> 0,
                         constructions |-> IF result'.constructed THEN 1 ELSE 0]

\* The facade with the pair of connect() calls observed; every step of a
\* closeAll forgets the remembered call
ProbedConnect(type, config) ==
    connect(type, config) /\ ProbeConnect(type, config) /\ UNCHANGED <<txVars, compilerVars, adapterVars>>
ProbedCloseAllCall == closeAll /\ probe' = NoProbe /\ UNCHANGED <<txVars, compilerVars, adapterVars>>
ProbedCloseFulfil(i) == closeFulfilled(i) /\ probe' = NoProbe /\ UNCHANGED <<txVars, compilerVars, adapterVars>>
ProbedCloseEmpty == closeAllEmpty /\ probe' = NoProbe /\ UNCHANGED <<txVars, compilerVars, adapterVars>>
ProbedCloseReject(i) == closeRejected(i) /\ probe' = NoProbe /\ UNCHANGED <<txVars, compilerVars, adapterVars>>
ProbedOrphanSettle(i, ok) == orphanSettled(i, ok) /\ UNCHANGED <<probe, txVars, compilerVars, adapterVars>>

CacheNext ==
    \/ \E type \in TypeNames, config \in Configs : ProbedConnect(type, config)
    \/ ProbedCloseAllCall
    \/ \E i \in pending : ProbedCloseFulfil(i)
    \/ ProbedCloseEmpty
    \/ \E i \in pending : ProbedCloseReject(i)
    \/ \E i \in orphan, ok \in BOOLEAN : ProbedOrphanSettle(i, ok)

CacheSpec == Init /\ [][CacheNext]_vars

\* One adapter running transaction() calls, one after the other
TxNext ==
    \/ \E kind \in TxKinds, initialized \in BOOLEAN : TxStart(kind, initialized)
    \/ \E ok \in BOOLEAN : TxAcquire(ok)
    \/ \E ok \in BOOLEAN : TxBegin(ok)
    \/ TxWrite
    \/ TxCallbackReturn
    \/ TxCallbackThrow
    \/ \E ok \in BOOLEAN : TxCommit(ok)
    \/ \E ok \in BOOLEAN : TxRollback(ok)

TxSpec == Init /\ [][TxNext]_vars

\* The facade and its registry with callers that register and remove adapters
\* and connect under type names in either letter case
RegistryTypeNames == {"postgres", "Postgres", "custom", "Custom", "constructor"}
RegistryConfigs == { Cfg("h1", "5432", "d1", Undef, "u", "p") }

AddAdapter(type, AdapterClass) ==
    addAdapter(type, AdapterClass) /\ UNCHANGED <<probe, txVars, compilerVars, adapterVars>>
RemoveAdapter(type) == removeAdapter(type) /\ UNCHANGED <<probe, txVars, compilerVars, adapterVars>>

RegistryNext ==
    \/ \E type \in RegistryTypeNames, config \in RegistryConfigs : Connect(type, config)
    \/ \E type \in RegistryTypeNames \cup {""}, AdapterClass \in AdapterArgs :
         AddAdapter(type, AdapterClass)
    \/ \E type \in RegistryTypeNames : RemoveAdapter(type)

RegistrySpec == Init /\ [][RegistryNext]_vars

\* The compilers as pure functions: one predicate, update or time range is
\* drawn and a compiler that takes it is applied to it
PredicateCompilers ==
    {"CockroachDBAdapter._buildWhereClause", "InfluxDBAdapter._buildFilterExpression",
     "ElasticsearchAdapter._buildFilterClauses", "MongoAdapter._convertQuery",
     "DynamoDBAdapter._buildQueryExpression", "DynamoDBAdapter._buildFilterExpression"}
UpdateCompilers ==
    {"DynamoDBAdapter._buildUpdateExpression", "MongoAdapter._convertUpdateOperations",
     "CassandraAdapter._buildUpdateQuery", "CockroachDBAdapter._buildSetClause",
     "ArangoAdapter._buildUpdateOperations"}
TimeCompilers == {"TimescaleAdapter._buildTimeWhereClause"}
NamedCompilers == {"OrientDBAdapter._buildWhereClause"}
DeleteCompilers == {"CockroachDBAdapter.delete", "CassandraAdapter._buildDeleteQuery"}
StatementCompilers == {"CockroachDBAdapter.update"}

Compile(c, doc) ==
    CASE c = "CockroachDBAdapter._buildWhereClause" -> Cockroach_buildWhereClause(doc)
      [] c = "InfluxDBAdapter._buildFilterExpression" -> Influx_buildFilterExpression(doc)
      [] c = "ElasticsearchAdapter._buildFilterClauses" -> Elasticsearch_buildFilterClauses(doc)
      [] c = "MongoAdapter._convertQuery" -> Mongo_processQueryOperators(doc)
      [] c = "DynamoDBAdapter._buildQueryExpression" -> Dynamo_buildQueryExpression(doc)
      [] c = "DynamoDBAdapter._buildFilterExpression" -> Dynamo_buildFilterExpression(doc)
      [] c = "DynamoDBAdapter._buildUpdateExpression" -> Dynamo_buildUpdateExpression(doc)
      [] c = "MongoAdapter._convertUpdateOperations" -> Mongo_convertUpdateOperations(doc)
      [] c = "CassandraAdapter._buildUpdateQuery" -> Cassandra_buildUpdateQuery(doc)
      [] c = "CockroachDBAdapter._buildSetClause" -> Cockroach_buildSetClause(doc)
      [] c = "ArangoAdapter._buildUpdateOperations" -> Arango_buildUpdateOperations(doc)
      [] c = "TimescaleAdapter._buildTimeWhereClause" ->
           Timescale_buildTimeWhereClause("time", doc.startTime, doc.endTime)
      [] c = "OrientDBAdapter._buildWhereClause" -> Orient_buildWhereClause(doc)
      [] c = "CockroachDBAdapter.delete" -> Cockroach_delete(doc)
      [] c = "CassandraAdapter._buildDeleteQuery" -> Cassandra_buildDeleteQuery(doc)
      [] c = "CockroachDBAdapter.update" -> Cockroach_update(doc.query, doc.update)

\* the one-field documents {key: v}, {key: {}} and {key: {op: v}}
OneField(ops) ==
    {<<Literal(key, v)>> : key \in FieldKeys, v \in Values}
      \cup {<<OperatorMap(key, <<>>)>> : key \in FieldKeys}
      \cup {<<OperatorMap(key, <<Entry(op, v)>>)>> :
              key \in FieldKeys, op \in ops, v \in Values}

\* the arguments of each kind that the compilers are applied to
Inputs(kind) ==
    CASE kind = "predicate" -> Docs(PredicateOps)
      [] kind = "update"    -> Docs(UpdateOps)
      [] kind = "timeRange" -> TimeRanges
      [] kind = "query"     -> OneField(PredicateOps)
      [] kind = "statement" ->
           [query : OneField(PredicateOps), update : OneField({"$set", "$inc", "$unset"})]

CompileInit ==
    /\ Constructed
    /\ \E kind \in {"predicate", "update", "timeRange", "query", "statement"} :
         \E d \in Inputs(kind) : compileIn = [kind |-> kind, doc |-> d]
    /\ compileOut = NoOutput

Apply(c) ==
    /\ compileOut = NoOutput
    /\ compileOut' = [compiler |-> c, out |-> Compile(c, compileIn.doc)]
    /\ UNCHANGED <<compileIn, facadeVars, probe, txVars, adapterVars>>

CompilePredicate(c) == compileIn.kind = "predicate" /\ Apply(c)
CompileUpdate(c) == compileIn.kind = "update" /\ Apply(c)
CompileTimeRange(c) == compileIn.kind = "timeRange" /\ Apply(c)
CompileNamed(c) == compileIn.kind = "predicate" /\ Apply(c)
CompileDelete(c) == compileIn.kind = "query" /\ Apply(c)
CompileStatement(c) == compileIn.kind = "statement" /\ Apply(c)

CompileNext ==
    \/ \E c \in PredicateCompilers : CompilePredicate(c)
    \/ \E c \in UpdateCompilers : CompileUpdate(c)
    \/ \E c \in TimeCompilers : CompileTimeRange(c)
    \/ \E c \in NamedCompilers : CompileNamed(c)
    \/ \E c \in DeleteCompilers : CompileDelete(c)
    \/ \E c \in StatementCompilers : CompileStatement(c)

CompileSpec == CompileInit /\ [][CompileNext]_vars

\* One adapter over a collection, with callers that create records, count,
\* test existence, update and find
StoreNext ==
    \/ \E record \in Records : Create(record)
    \/ \E call \in Calls, query \in StoreQueries :
         Count("MongoAdapter", call[1], query, call[2])
    \/ Count("CockroachDBAdapter", "User", <<>>, "up")
    \/ \E call \in Calls, query \in StoreQueries :
         Exists("MongoAdapter", call[1], query, call[2])
    \/ Exists("CockroachDBAdapter", "User", <<>>, "up")
    \/ \E call \in Calls, query \in StoreQueries, data \in UpdateDocs :
         Update(call[1], query, data, call[2])
    \/ \E call \in Calls, query \in StoreQueries : FindOne(call[1], query, call[2])

StoreSpec == Init /\ [][StoreNext]_vars

\* One RedisAdapter with callers that create and get keys while time passes
RedisNext ==
    \/ \E key \in RedisKeys, value \in StorableValues, ttl \in TTLs :
         RedisCreate(key, value, ttl)
    \/ \E key \in RedisKeys : RedisGet(key)
    \/ Tick

RedisSpec == Init /\ [][RedisNext]_vars

\* One DynamoDBAdapter whose caller starts batches and whose backend answers
\* every call it is sent, with any part of the call left unprocessed
BatchNext ==
    \/ \E kind \in BatchKinds, operations \in SUBSET BatchItems :
         BatchStart(kind, operations)
    \/ \E left \in SUBSET BatchItems : BatchReply(left)
    \/ BatchReject

BatchSpec == Init /\ [][BatchNext]_vars /\ WF_vars(BatchNext)

\* One adapter whose owner calls initialize() and close() in any order
LifeNext ==
    \/ \E kind \in LifeKinds : Construct(kind)
    \/ \E ok \in BOOLEAN : LifeInitialize(ok)
    \/ \E ok \in BOOLEAN : LifeClose(ok)

LifeSpec == Init /\ [][LifeNext]_vars

----------------------------------------------------------------------------
(* Claims *)

IdentityFields == {"host", "port", "uri", "user", "database"}

\* the required fields of the type that the config lacks
MissingFields(type, config) ==
    {f \in {requiredFields(toLowerCase(type))[n] :
              n \in 1..Len(requiredFields(toLowerCase(type)))} :
       ~Truthy(Get(config, f))}

\* C1: with no closeAll step between them, a repeated connect(type, config)
\* returns the instance the first call returned, and the two calls construct
\* at most one adapter.
C1_SameInstance ==
    probe.calls = 2 => probe.again = probe.ret /\ probe.constructions <= 1

C1_Witness ==
    /\ probe.calls = 2
    /\ probe.again = probe.ret
    /\ probe.constructions = 1
    /\ Len(instances) = 2

\* C2: every adapter that connect(type, config) returns was constructed for
\* that type from a config that agrees with the passed one on the identity
\* fields, so two different logical connections never share an instance.
C2_NoCollision ==
    [][\A type \in TypeNames, config \in Configs :
         (Connect(type, config) /\ result'.error = NoError)
           => /\ instances'[result'.ret].type = type
              /\ \A f \in IdentityFields :
                   instances'[result'.ret].config[f] = config[f]]_vars

\* C3: a callback that returns normally is followed by exactly one commit and
\* transaction() returns the callback's result; a callback that throws is
\* followed by no commit, a rollback attempt and the wrapped callback error.
C3_CommitOrRollback ==
    txPc = "done" =>
      /\ cbOutcome = "returned" =>
           /\ commits = 1
           /\ txResult.status = "returned" => txResult.value = "callbackResult"
      /\ cbOutcome = "threw" =>
           /\ commits = 0
           /\ rollbacks >= 1
           /\ txResult.status = "threw"
           /\ txResult.error = Wrapped("callback")

\* C4: when transaction() has settled, on whatever path, the session or
\* pooled client it acquired is released.
C4_Released == txPc = "done" => ~held

C4_Witness ==
    /\ txPc = "done"
    /\ acquired
    /\ cbOutcome = "threw"
    /\ rollbackFailed
    /\ ~held

\* C5: after a transaction whose callback wrote and then threw, no write of
\* the callback is observable.
C5_NoPartialWrites ==
    (txPc = "done" /\ cbOutcome = "threw") => visible = {}

\* C6: when the callback throws and the rollback fails too, the caller gets a
\* transaction error about the rollback failure that still carries the
\* callback's error.
C6_RollbackFailureDistinct ==
    (txPc = "done" /\ cbOutcome = "threw" /\ rollbackFailed) =>
      /\ txResult.status = "threw"
      /\ txResult.error.wrapped
      /\ {"rollback", "callback"} \subseteq txResult.error.mentions

\* C7: closeAll does not settle while a close() it started is pending, and a
\* rejected closeAll carries every failed close().
C7_WaitsAndAggregates ==
    closeAllResult.status = "rejected" =>
      /\ orphan = {}
      /\ closeAllResult.errors = closeFailures

\* C8: the step in which closeAll settles, fulfilled or rejected, leaves the
\* connection cache empty.
C8_CacheClearedOnSettle ==
    [][(closePc = "awaiting" /\ closePc' = "idle") => connections' = EmptyMap]_vars

\* C9: an adapter turns ready only in a step that is the caller's own
\* initialize() on it; connect, on a hit or a miss, never makes one ready.
C9_ConnectNeverInitializes ==
    [][\A i \in 1..Len(instances') :
         (instances'[i].state = "ready" /\ (i \notin Ids \/ instances[i].state # "ready"))
           => Initialize(i, TRUE)]_vars

C9_Witness ==
    /\ result.error = NoError
    /\ result.ret \in Ids
    /\ ~result.constructed
    /\ instances[result.ret].state = "created"
    /\ \E j \in Ids : instances[j].state = "ready"

\* C10 as stated: when the key of connect(type, config) is present, the call
\* succeeds with the cached instance, whatever required fields config lacks.
C10_HitSkipsValidation ==
    [][\A type \in TypeNames, config \in Configs :
         (Connect(type, config) /\ cacheHas(connectionKey(type, config)))
           => /\ result'.error = NoError
              /\ result'.ret = connections[connectionKey(type, config)]]_vars

\* C10 amended: connect validates before it looks at the cache. With the key
\* present, a config that has every required field gets the cached instance
\* and nothing is constructed; a config that lacks one fails with a
\* connection error and the cache is left as it was.
C10_ValidatesBeforeHit ==
    [][\A type \in TypeNames, config \in Configs :
         (Connect(type, config) /\ cacheHas(connectionKey(type, config)))
           => /\ UNCHANGED <<connections, instances>>
              /\ IF MissingFields(type, config) = {}
                 THEN /\ result'.error = NoError
                      /\ result'.ret = connections[connectionKey(type, config)]
                      /\ ~result'.constructed
                 ELSE /\ result'.error # NoError
                      /\ result'.ret = 0]_vars

C10_Witness ==
    /\ result.error = "Connection failed: Missing required field: port"
    /\ "postgres-d1" \in DOMAIN connections

\* the field names of the required-field table that occur in the configs
FieldNames == {"host", "port", "database", "uri", "user", "password"}

\* the fields that the message of a failed connect names: the validator's
\* only message about a missing field is the prefix followed by one name
NamedFields(msg) ==
    {f \in FieldNames : msg = "Connection failed: Missing required field: " \o f}

\* C11: a connect whose config lacks required fields fails with an error
\* that names every missing field.
C11_NamesEveryMissingField ==
    [][\A type \in TypeNames, config \in Configs :
         (Connect(type, config) /\ MissingFields(type, config) # {})
           => /\ result'.error # NoError
              /\ MissingFields(type, config) \subseteq NamedFields(result'.error)]_vars

\* C12: two cached instances never stand for the same logical connection,
\* that is the same backend type up to letter case with an equal config.
C12_OneEntryPerConnection ==
    \A i \in Cached, j \in Cached :
        (/\ toLowerCase(instances[i].type) = toLowerCase(instances[j].type)
         /\ instances[i].config = instances[j].config) => i = j

\* C13: the adapter a successful connect(type, config) returns was
\* constructed by the constructor registered for the type at that moment.
C13_DispatchesToRegistered ==
    [][\A type \in RegistryTypeNames, config \in RegistryConfigs :
         (Connect(type, config) /\ result'.error = NoError)
           => /\ isSupported(type)
              /\ instances'[result'.ret].ctor = Lookup(adapters, toLowerCase(type))]_vars

\* what createDatabase does for a type: the constructor it runs, or its error
\* with the type name left out
Outcome(type, config) ==
    IF createDatabase(type, config).error # NoError THEN "Unsupported database type"
    ELSE createDatabase(type, config).adapter.ctor

\* C14: after any addAdapter and removeAdapter calls, createDatabase and
\* isSupported answer alike for type names that differ only in letter case,
\* and getSupportedDatabases lists no two such names.
C14_CaseInsensitive ==
    /\ \A t1 \in RegistryTypeNames, t2 \in RegistryTypeNames :
          toLowerCase(t1) = toLowerCase(t2) =>
            /\ isSupported(t1) = isSupported(t2)
            /\ \A config \in RegistryConfigs : Outcome(t1, config) = Outcome(t2, config)
    /\ \A a \in getSupportedDatabases, b \in getSupportedDatabases :
          toLowerCase(a) = toLowerCase(b) => a = b

C14_Witness ==
    /\ "custom" \in getSupportedDatabases
    /\ isSupported("Custom")
    /\ Outcome("Custom", Cfg("h1", "5432", "d1", Undef, "u", "p")) = "CustomAdapter"
    /\ "postgres" \notin getSupportedDatabases
    /\ ~isSupported("Postgres")
    /\ result.op = "removeAdapter"

\* C15: addAdapter for a registered name succeeds, leaves the supported names
\* as they were and makes createDatabase construct with the new constructor;
\* every adapter constructed is built by the constructor registered at that
\* moment, so a replaced constructor is not used again.
C15_ReplacesConstructor ==
    [][/\ \A type \in RegistryTypeNames, AdapterClass \in Constructors :
            (AddAdapter(type, AdapterClass) /\ toLowerCase(type) \in getSupportedDatabases)
              => /\ result'.error = NoError
                 /\ getSupportedDatabases' = getSupportedDatabases
                 /\ \A config \in RegistryConfigs :
                      Outcome(type, config)' = AdapterClass
       /\ \A i \in (1..Len(instances')) \ Ids :
            instances'[i].ctor = Lookup(adapters, toLowerCase(instances'[i].type))]_vars

C15_Witness ==
    /\ Lookup(adapters, "postgres") = "CustomAdapter"
    /\ \E i \in Ids, j \in Ids :
         /\ i < j
         /\ instances[i].ctor = "PostgresAdapter"
         /\ toLowerCase(instances[j].type) = "postgres"
         /\ instances[j].ctor = "CustomAdapter"

\* C16: createDatabase fails with the unsupported-type error exactly for the
\* types whose lower-cased name is not registered, and a connect that fails
\* with that error constructs nothing and changes neither cache nor registry.
C16_UnsupportedExactlyWhenAbsent ==
    [][/\ \A type \in RegistryTypeNames, config \in RegistryConfigs :
            (createDatabase(type, config).error = "Unsupported database type: " \o type)
              <=> (toLowerCase(type) \notin getSupportedDatabases)
       /\ \A type \in RegistryTypeNames, config \in RegistryConfigs :
            (/\ Connect(type, config)
             /\ result'.error = "Connection failed: Unsupported database type: " \o type)
              => UNCHANGED <<adapters, connections, instances>>]_vars

\* the operator keys for which a predicate compiler has a case
Supported(c) ==
    CASE c = "CockroachDBAdapter._buildWhereClause" -> CockroachOperators
      [] c = "InfluxDBAdapter._buildFilterExpression" -> InfluxOperators
      [] c = "ElasticsearchAdapter._buildFilterClauses" -> ElasticsearchOperators
      [] c = "MongoAdapter._convertQuery" -> MongoOperatorMap
      [] c = "DynamoDBAdapter._buildQueryExpression" -> DynamoQueryOperators
      [] c = "DynamoDBAdapter._buildFilterExpression" -> DynamoFilterOperators

\* C17: a predicate compiler handed a predicate with an operator key it has
\* no case for fails; it returns no filter for such a predicate.
C17_RejectsUnsupportedOperator ==
    (/\ compileOut.compiler \in PredicateCompilers
     /\ \E i \in DOMAIN Items(compileIn.doc) :
          Items(compileIn.doc)[i].operator \notin Supported(compileOut.compiler) \cup {""})
      => compileOut.out.error # NoError

\* the compilers that return query text next to bindings
TextCompilers ==
    {"CockroachDBAdapter._buildWhereClause", "InfluxDBAdapter._buildFilterExpression",
     "DynamoDBAdapter._buildQueryExpression", "DynamoDBAdapter._buildFilterExpression"}

\* two documents with the same fields and operator keys in the same order,
\* whatever their operand values
SameShape(d1, d2) ==
    /\ Len(d1) = Len(d2)
    /\ \A n \in DOMAIN d1 :
         /\ d1[n].key = d2[n].key
         /\ d1[n].kind = d2[n].kind
         /\ Len(d1[n].entries) = Len(d2[n].entries)
         /\ \A m \in DOMAIN d1[n].entries :
              d1[n].entries[m].operator = d2[n].entries[m].operator

\* C18: the text a compiler returns for a predicate is the text it returns
\* for every predicate that differs from it only in operand values.
C18_ValuesNotInText ==
    /\ (compileOut.compiler \in TextCompilers /\ compileOut.out.error = NoError)
         => \A d \in Inputs("predicate") :
              SameShape(d, compileIn.doc)
                => Compile(compileOut.compiler, d).text = compileOut.out.text
    /\ compileOut.compiler \in TimeCompilers
         => \A d \in Inputs("timeRange") :
              (/\ (d.startTime = Undef) = (compileIn.doc.startTime = Undef)
               /\ (d.endTime = Undef) = (compileIn.doc.endTime = Undef))
                => Compile(compileOut.compiler, d).text = compileOut.out.text

\* C19: an update compiler that does not fail emits a mutation clause for
\* every operator of the update (and for every literal field), none dropped.
C19_NoOperatorDropped ==
    (compileOut.compiler \in UpdateCompilers /\ compileOut.out.error = NoError)
      => Len(compileOut.out.clauses) >= Len(Items(compileIn.doc))

\* the update with every literal field written as {$set: literal}
AsSet(update) ==
    [n \in DOMAIN update |->
       IF update[n].kind = "literal"
       THEN OperatorMap(update[n].key, <<Entry("$set", update[n].literal)>>)
       ELSE update[n]]

\* C20: an update compiler returns for literal fields what it returns for
\* the same fields written as {$set: value}: same mutation, same bindings.
C20_LiteralIsSet ==
    (/\ compileOut.compiler \in UpdateCompilers
     /\ \A n \in DOMAIN compileIn.doc : compileIn.doc[n].kind = "literal")
      => compileOut.out = Compile(compileOut.compiler, AsSet(compileIn.doc))

\* C21: for every adapter, model and predicate, exists fails exactly when
\* count on the same collection fails, and otherwise returns true exactly
\* when that count is greater than 0
C21_ExistsIsCountPositive ==
    crud.op = "exists" =>
      LET c == count(crud.kind, collection, crud.model, crud.query, crud.driver)
      IN /\ (crud.out.error # NoError) <=> (c.error # NoError)
         /\ crud.out.error = NoError => (crud.out.flag <=> c.count > 0)

C21_Witness ==
    /\ crud.op = "exists"
    /\ crud.kind = "MongoAdapter"
    /\ crud.query # <<>>
    /\ crud.out.error = NoError
    /\ ~crud.out.flag
    /\ Len(collection) > 0

\* the update {$set: {f: v}} that directly precedes a findOne on the same
\* model and predicate, and the records its predicate matched
SetBefore == crud.write.data[1].entries[1]
MatchedBefore == Matching(crud.write.before, Mongo_convertQuery(crud.query))
FoundAfterSet ==
    /\ crud.op = "findOne"
    /\ crud.out.error = NoError
    /\ crud.write # NoWrite
    /\ crud.write.data[1].key = "$set"
    /\ MatchedBefore # {}

\* C22 as stated: after a successful update(model, q, {$set: {f: v}}) that
\* matched a record, findOne(model, q) returns a record whose f is v, for
\* every q, f and v
C22_FindsUpdatedRecord ==
    FoundAfterSet =>
      /\ crud.out.docs # <<>>
      /\ crud.out.docs[1][SetBefore.operator] = SetBefore.operand

\* the conditions q puts on the field f hold of the value v
ConditionsHold(query, f, v) ==
    \A n \in DOMAIN query :
       query[n].key = f =>
         ServerMatches([g \in StoreFields |-> v], Mongo_convertQuery(<<query[n]>>))

\* C22, amended: the same, for every q whose conditions on f, if it has
\* any, hold of v
C22_FindsUpdatedRecordStillMatching ==
    (FoundAfterSet /\ ConditionsHold(crud.query, SetBefore.operator, SetBefore.operand)) =>
      /\ crud.out.docs # <<>>
      /\ crud.out.docs[1][SetBefore.operator] = SetBefore.operand

C22_Witness ==
    /\ FoundAfterSet
    /\ crud.query # <<>>
    /\ ConditionsHold(crud.query, SetBefore.operator, SetBefore.operand)
    /\ \A i \in MatchedBefore :
         crud.write.before[i][SetBefore.operator] # SetBefore.operand
    /\ crud.out.docs # <<>>
    /\ crud.out.docs[1][SetBefore.operator] = SetBefore.operand

\* C23: get(key) after create(key, value, {ttl}) returns a value equal to
\* the stored one while the TTL has not expired, for every storable value,
\* and null once it has expired
C23_RoundTrip ==
    (redisOut.op = "get" /\ redisOut.entry.set /\ redisOut.entry.ttl # 0) =>
      IF redisOut.live THEN redisOut.value = redisOut.entry.stored
      ELSE redisOut.value = JsNull

\* C24: a batch write or batch get that was started ends, returning or
\* throwing, also when the backend keeps reporting unprocessed items
C24_BatchTerminates ==
    (batch.pc = "awaiting") ~> (batch.pc \in {"returned", "threw"})

\* C25: for every adapter, a close() that directly follows a successful
\* close() makes no driver call and does not fail
C25_SecondCloseNoOp ==
    (life.op = "close" /\ life.second) => (life.calls = 0 /\ life.error = NoError)

\* C26: under any sequence of initialize() and close() calls at most one
\* native connection the adapter opened is open, and none is open after a
\* close() that succeeded
C26_OneNativeConnection ==
    /\ Cardinality(Open) <= 1
    /\ (life.op = "close" /\ life.error = NoError) => Open = {}

\* C27: when connect runs while closeAll is awaiting, every instance that
\* closeAll removes from the cache has had close() called on it and
\* completed: no instance is dropped from the cache while still open
C27_RemovedWereClosed ==
    [][\A key \in DOMAIN connections \ DOMAIN connections' :
          instances'[connections[key]].state = "closed"]_vars

\* C28: in the statement of CockroachDBAdapter.update the placeholder $i of
\* the i-th WHERE condition refers to the position of the value list that
\* holds the operand of that condition, for every update and predicate
C28_WherePlaceholdersOwnOperand ==
    (compileOut.compiler = "CockroachDBAdapter.update" /\ compileOut.out.error = NoError)
      => LET items == Items(compileIn.doc.query)
         IN \A i \in DOMAIN items : compileOut.out.values[i] = items[i].operand

\* C29: every placeholder of the fragment a named-parameter compiler
\* returns has a binding, that binding holds the operand of the
\* placeholder's own condition, and every binding is referenced
C29_BindingsMatchPlaceholders ==
    (compileOut.compiler \in NamedCompilers /\ compileOut.out.error = NoError)
      => LET clauses == compileOut.out.clauses
             values == compileOut.out.values
         IN /\ \A i \in DOMAIN clauses : \A ph \in clauses[i].placeholders :
                  /\ ph \in DOMAIN values
                  /\ values[ph] = clauses[i].operand
            /\ \A name \in DOMAIN values :
                  \E i \in DOMAIN clauses : name \in clauses[i].placeholders

\* the predicate of a delete or update
WhereInput ==
    IF compileIn.kind = "statement" THEN compileIn.doc.query ELSE compileIn.doc

\* C30: the delete and update builders emit, for a predicate that names at
\* least one field, a WHERE clause with at least one condition for every
\* named field
C30_ConditionPerField ==
    (/\ compileOut.compiler \in DeleteCompilers \cup StatementCompilers
     /\ compileOut.out.error = NoError
     /\ Len(WhereInput) >= 1)
      => Len(compileOut.out.clauses) >= Len(WhereInput)

====
